---- MODULE Spec2Model ----
(***************************************************************************)
(* Codojo: the commit ingestion pipeline (pollCommits), the retry wrapper  *)
(* (withRetry), the shared concurrency limiter (p-limit) and the file      *)
(* embedding pipeline (indexGithubRepo) of src/src/lib/github.ts, with the *)
(* generative-model helpers of src/unnamed/part_001, and the question      *)
(* answering action (askQuestion, performVectorSearch, streamText) of      *)
(* src/src/app/(protected)/dashboard/page.tsx.                             *)
(*                                                                         *)
(* Remote calls (GitHub, Gemini) and the store are the environment: each   *)
(* call returns or throws, chosen nondeterministically.  MaxFaults bounds  *)
(* the number of per-item calls that do not succeed in one behaviour.      *)
(***************************************************************************)
EXTENDS Integers, Sequences, FiniteSets, TLC

\* ---------------------------------------------------------------- bounds
NumCommits == 3
MaxFaults == 1

\* The commits of a listing longer than one store batch.
NumCommitsWide == 4

NumFiles == 3
\* The files of a snapshot wider than the limiter's ceiling.
NumFilesWide == 6

\* Rows of the enumerated stores a question is asked against, and the most
\* chunks one completion stream emits.
MaxRows == 2
MaxChunks == 3

\* ------------------------------------------------------ program constants
MAX_CONCURRENT == 5
RETRY_DELAYS == <<1000, 2000, 4000, 8000>>
RATE_LIMITED == 429
batchSize == 3
maxAttempts == 3
\* The pause after a store batch, in ms.
BatchPauseMs == 500
\* SIMILARITY_THRESHOLD = 0.5, in tenths.
SIMILARITY_THRESHOLD == 5
MAX_RESULTS == 10
ErrorSummary == "Error generating summary"
NoSummary == "No summary available"

\* ------------------------------------------------------------ environment
\* Two callers of pollCommits, which may overlap.
Invocations == {1, 2}
Hashes == (1..NumCommits) \cup (1..NumCommitsWide)
\* Project rows of the store: two projects of the same repository exist.
Projects == {"p1", "p2"}
\* The ids pollCommits is called with: project "p1" or the unknown id "p0".
\* Project "p2" was ingested earlier, when the repository held commit 1 only.
ProjectIds == {"p1", "p0"}
\* Statuses a remote call can throw with: rate-limited and not-found.
ErrorStatuses == {RATE_LIMITED, 404}
\* The summary the model produces from the diff of commit h.
SummaryOf(h) == <<"summary", h>>
\* The commit's own message, as listed upstream.
MessageOf(h) == <<"message", h>>
\* Author date of commit h as listed upstream (ties exist).
DateOf(h) == h % 2
\* The order in which the repository provider lists the commits.
ApiCommits == [k \in 1..NumCommits |-> k]
WideApiCommits == [k \in 1..NumCommitsWide |-> k]

\* The files of the loaded snapshot, and the calls made for each of them.
Files == 1..NumFiles
WideFiles == 1..NumFilesWide
AllFiles == Files \cup WideFiles
\* What one attempt of loader.load() can do: return the snapshot, or throw
\* an error whose message does or does not hold "rate limit exceeded".
LoadOutcomes == {"ok", "rateLimit", "other"}
FileCalls == {"summarise", "embed", "create", "update"}
\* The summary the model gives for file f, the empty summary, the vector the
\* embedding model gives for a summary, and an unset vector column.
FileSummary(f) == <<"summary", f>>
EmptySummary == <<"", 0>>
EmbeddingOf(summary) == <<"vector", summary[2]>>
NullVector == <<"null", 0>>

\* The values the embedding model returns, by the text embedded: for the
\* summary of file k (EmbeddingTable[k]) and for a question (QuestionTable).
\* Against question 1 the five summaries have cosine similarity 0.9, 0.5,
\* 0.3, 0.6 and 0.2; against question 2 two of them tie at 0.8.
EmbeddingTable ==
  <<<<9, 3, 3, 1>>, <<1, 1, 1, 1>>, <<3, 9, 3, 1>>, <<3, 4, 0, 0>>, <<1, 4, 2, 2>>>>
QuestionTable == <<<<1, 0, 0, 0>>, <<0, 1, 0, 0>>>>
Questions == 1..Len(QuestionTable)
Coordinates(v) == EmbeddingTable[((v[2] - 1) % Len(EmbeddingTable)) + 1]

\* A SourceCodeEmbedding row n of project p for file k; k = 0: a row whose
\* vector column is not written.
StoredRow(n, p, k) ==
  [id |-> n, fileName |-> IF k = 0 THEN 1 ELSE k, projectId |-> p,
   summary |-> FileSummary(IF k = 0 THEN 1 ELSE k),
   summaryEmbedding |-> IF k = 0 THEN NullVector
                        ELSE EmbeddingOf(FileSummary(k))]

\* The stores a question is asked against: every store of MaxRows rows, the
\* five files of one project (with a row of another project), and a project
\* with more matching rows than MAX_RESULTS.
RowChoices == Projects \X (0..Len(EmbeddingTable))
EnumeratedStores ==
  {{StoredRow(n, c[n][1], c[n][2]) : n \in 1..MaxRows} :
     c \in [1..MaxRows -> RowChoices]}
FiveFileStore ==
  {StoredRow(k, "p1", k) : k \in 1..5} \cup {StoredRow(6, "p2", 1)}
CrowdedStore ==
  {StoredRow(n, "p1", IF n % 2 = 0 THEN 1 ELSE 4) : n \in 1..(MAX_RESULTS + 2)}
AskStores == EnumeratedStores \cup {FiveFileStore, CrowdedStore}

VARIABLES
  upstream,     \* the commits the repository provider lists, in its order
  commits,      \* rows of the Commit table
  pc,           \* pollCommits: where each invocation is
  proj,         \* pollCommits: projectId argument
  retry,        \* withRetry around the listing: retryCount, the attempts made,
                \* the waits slept and the status of the last attempt
  err,          \* pollCommits: the error thrown to the caller
  unprocessed,  \* pollCommits: unprocessedCommits
  task,         \* pollCommits: the limiter task of each unprocessed commit
  activeCount,  \* p-limit: number of admitted, unfinished tasks
  queue,        \* p-limit: tasks waiting for a slot, FIFO
  storeIdx,     \* pollCommits: position in validSummaries
  results,      \* pollCommits: results array
  storeFailed,  \* pollCommits: commits whose insert was logged as failed
  doneBefore,   \* invocations that had returned when this one was called
  faults,       \* per-item calls that did not succeed so far
  pauses,       \* pollCommits: the pauses slept, each with the number of
                \* inserts made before it and its length in ms
  settleOrder,  \* the order in which the limiter tasks of each invocation
                \* settled (recorded by SpecBatch only)
  plan,         \* indexGithubRepo: the calls (file, call) the environment fails
  docs,         \* the files of the repository, which loader.load() returns
  load,         \* loadGithubRepo: the outcome of each attempt made, the waits
                \* slept between attempts and the error thrown to the caller
  ipc,          \* indexGithubRepo: where the run is
  ftask,        \* generateEmbeddings / persistence: the task of each file
  embeddings,   \* rows of the SourceCodeEmbedding table
  apc,          \* askQuestion: where the call is
  asked,        \* askQuestion: the question and projectId arguments
  searchResults,\* askQuestion: the rows performVectorSearch returned
  completion,   \* the model's completion stream: its state
  emitted,      \* the chunks the completion stream has emitted, in order
  events        \* what the streamable value handed to the caller received

pollVars == <<upstream, commits, pc, proj, retry, err, unprocessed, task, activeCount,
              queue, storeIdx, results, storeFailed, doneBefore, faults, pauses,
              settleOrder>>

indexVars == <<plan, docs, load, ipc, ftask, embeddings>>

askVars == <<apc, asked, searchResults, completion, emitted, events>>

vars == <<pollVars, indexVars, askVars>>

\* ------------------------------------------------------- pure functions

\* Sentinel summaries carry no commit; real ones carry the commit they are of.
Sentinel(text) == <<text, 0>>

\* getCommitHashes: data.sort by author date, newest first (stable sort).
RECURSIVE InsertByDate(_, _)
InsertByDate(sorted, c) ==
  IF sorted = <<>> THEN <<c>>
  ELSE IF DateOf(Head(sorted)) >= DateOf(c)
       THEN <<Head(sorted)>> \o InsertByDate(Tail(sorted), c)
       ELSE <<c>> \o sorted

RECURSIVE SortByDate(_)
SortByDate(s) ==
  IF s = <<>> THEN <<>>
  ELSE InsertByDate(SortByDate(SubSeq(s, 1, Len(s) - 1)), s[Len(s)])

ShouldRetryAnyError(status, retryCount) == retryCount < Len(RETRY_DELAYS)

ShouldRetryOneFewer(status, retryCount) ==
  status = RATE_LIMITED /\ retryCount < Len(RETRY_DELAYS) - 1

\* withRetry's catch: retry only a rate-limited error, below the ceiling.
ShouldRetry(status, retryCount) ==
  status = RATE_LIMITED /\ retryCount < Len(RETRY_DELAYS)

RetryDelayNoBackoff(retryCount) == RETRY_DELAYS[1]

\* withRetry's delay before retry number retryCount + 1 (0-based index).
RetryDelay(retryCount) == RETRY_DELAYS[retryCount + 1]

\* A filter that counts a commit as processed only when its stored summary
\* is a real one.
ProcessedHashesSkipSentinels(p) ==
  {r.commitHash : r \in {x \in commits : x.projectId = p /\ x.summary[2] # 0}}

\* filterUnprocessedCommits: hashes already stored for the project.
ProcessedHashes(p) == {r.commitHash : r \in {x \in commits : x.projectId = p}}

FilterUnprocessedKeepsAll(p, commitHashes) == commitHashes

FilterUnprocessed(p, commitHashes) ==
  SelectSeq(commitHashes, LAMBDA h : h \notin ProcessedHashes(p))

ProjectExistsAlways(p) == TRUE

\* fetchProjectGithubUrl: db.project.findUnique found the project.
ProjectExists(p) == p \in Projects

AfterFilterAlwaysTasks(un) == "tasks"

\* pollCommits after the filter: `if (unprocessedCommits.length === 0) return []`.
AfterFilter(un) == IF un = <<>> THEN "done" ELSE "tasks"

AfterInsertNoPause(ok, k, n) == IF k = n THEN "pause" ELSE "store"

AfterInsertAborts(ok, k, n) ==
  IF ~ok THEN "failed"
  ELSE IF k % batchSize = 0 \/ k = n THEN "pause" ELSE "store"

\* The store loop after the k-th of n inserts: a failed insert is caught and
\* logged inside the loop, so the loop goes on either way; the last insert of
\* a batch is followed by the pause.
AfterInsert(ok, k, n) ==
  IF k % batchSize = 0 \/ k = n THEN "pause" ELSE "store"

CanAdmitOneMore(n) == n <= MAX_CONCURRENT

\* p-limit: a queued task is started while activeCount < concurrency.
CanAdmit(n) == n < MAX_CONCURRENT

\* p-limit enqueue: push, then start the head if a slot is free.
Enqueue(lim, t) ==
  LET q == Append(lim.queue, t)
  IN IF CanAdmit(lim.active)
     THEN [active |-> lim.active + 1, queue |-> Tail(q),
           started |-> lim.started \cup {Head(q)}]
     ELSE [active |-> lim.active, queue |-> q, started |-> lim.started]

RECURSIVE EnqueueAll(_, _, _)
EnqueueAll(lim, i, hs) ==
  IF hs = <<>> THEN lim
  ELSE EnqueueAll(Enqueue(lim, <<i, Head(hs)>>), i, Tail(hs))

ReleaseForgetsQueue(lim) ==
  [active |-> lim.active - 1, queue |-> lim.queue, started |-> lim.started]

\* p-limit next(): the finished task frees its slot, the queue head takes it.
Release(lim) ==
  LET a == lim.active - 1
  IN IF lim.queue # <<>> /\ CanAdmit(a)
     THEN [active |-> a + 1, queue |-> Tail(lim.queue),
           started |-> lim.started \cup {Head(lim.queue)}]
     ELSE [active |-> a, queue |-> lim.queue, started |-> lim.started]

Limiter == [active |-> activeCount, queue |-> queue, started |-> {}]

AfterFetchRethrows(reply) ==
  IF reply.status # 0
  THEN [kind |-> "throw", value |-> Sentinel(""), status |-> reply.status]
  ELSE IF ~reply.data
  THEN [kind |-> "throw", value |-> Sentinel(""), status |-> 0]
  ELSE [kind |-> "continue", value |-> Sentinel(""), status |-> 0]

\* summariesCommit, after axios.get: the inner try/catch turns every error
\* of the fetch (also a rate-limited one) and an empty diff into the sentinel.
\* reply.status = 0: the call returned; otherwise it threw with that status.
AfterFetch(reply) ==
  IF reply.status # 0
  THEN [kind |-> "return", value |-> Sentinel(ErrorSummary), status |-> 0]
  ELSE IF ~reply.data
  THEN [kind |-> "return", value |-> Sentinel(ErrorSummary), status |-> 0]
  ELSE [kind |-> "continue", value |-> Sentinel(""), status |-> 0]

\* summariesCommit, after aiSummarizeCommit.
AfterSummarize(reply, h) ==
  IF reply.status # 0
  THEN [kind |-> "return", value |-> Sentinel(ErrorSummary), status |-> 0]
  ELSE IF ~reply.data
  THEN [kind |-> "return", value |-> Sentinel(NoSummary), status |-> 0]
  ELSE [kind |-> "return", value |-> SummaryOf(h), status |-> 0]

\* Replies of a remote call: returned with or without content, or threw.
Replies ==
  {[status |-> 0, data |-> TRUE], [status |-> 0, data |-> FALSE]}
    \cup {[status |-> s, data |-> FALSE] : s \in ErrorStatuses}

IsFault(reply) == reply.status # 0 \/ ~reply.data

NoTask == [st |-> "none", fetches |-> 0, fault |-> "", summary |-> Sentinel("")]
NoError == [name |-> "", status |-> 0]
NoRetry == [retryCount |-> 0, attempts |-> 0, waits |-> <<>>, last |-> 0]

\* validSummaries: the task results that are not null, in input order.
ValidSummaries(i) ==
  SelectSeq(unprocessed[i], LAMBDA h : task[i][h].st = "done")

NoFileTask == [st |-> "none", summary |-> EmptySummary, embedding |-> NullVector]
NoLoad == [outcomes |-> <<>>, waits |-> <<>>, thrown |-> ""]

\* indexGithubRepo's guard `if (!embedding) return`: embedding is the object
\* generateEmbeddings built for the file, and an object is truthy whatever its
\* summary and embedding fields hold.
SkipsPersistence(e) == FALSE


\* ------------------------------------------------ loadGithubRepo.retry

RECURSIVE Pow2(_)
Pow2(n) == IF n = 0 THEN 1 ELSE 2 * Pow2(n - 1)

\* waitTime = Math.min(1000 * Math.pow(2, attempt), 10000), attempt from 1.
LoadWait(attempt) ==
  IF 1000 * Pow2(attempt) <= 10000 THEN 1000 * Pow2(attempt) ELSE 10000

AfterLoadErrorAnyKind(attempt, kind) ==
  IF attempt = maxAttempts THEN "throw" ELSE "retry"

\* The catch of retry's loop: the last attempt's error is thrown; before it,
\* only an error whose message holds "rate limit exceeded" is waited out.
AfterLoadError(attempt, kind) ==
  IF attempt = maxAttempts THEN "throw"
  ELSE IF kind = "rateLimit" THEN "retry" ELSE "throw"

\* The outer catch of loadGithubRepo: a rate-limit error is replaced by the
\* error that recommends a GitHub token, any other error is rethrown as is.
Surfaced(kind) == IF kind = "rateLimit" THEN "tokenAdvice" ELSE kind

\* ------------------------------------------- performVectorSearch (SQL)

Dot(a, b) == a[1] * b[1] + a[2] * b[2] + a[3] * b[3] + a[4] * b[4]

AtOrAboveThreshold(v, q) ==
  Dot(v, q) > 0
  /\ 100 * Dot(v, q) * Dot(v, q) >=
       SIMILARITY_THRESHOLD * SIMILARITY_THRESHOLD * Dot(v, v) * Dot(q, q)

\* WHERE 1 - (v <==> q) > SIMILARITY_THRESHOLD.  The source writes the
\* distance operator `<==>`; it is read as the cosine distance (pgvector's
\* `<=>`), and a database that does not know the operator rejects the query
\* (the failing branch of PerformVectorSearch).  The cosine similarity
\* Dot(v, q) / sqrt(Dot(v, v) * Dot(q, q)) is above threshold / 10, compared
\* exactly on the squares.
AboveThreshold(v, q) ==
  Dot(v, q) > 0
  /\ 100 * Dot(v, q) * Dot(v, q) >
       SIMILARITY_THRESHOLD * SIMILARITY_THRESHOLD * Dot(v, v) * Dot(q, q)

MatchesAnyProject(r, q, p) ==
  /\ r.summaryEmbedding # NullVector
  /\ AboveThreshold(Coordinates(r.summaryEmbedding), q)

\* The WHERE clause; a NULL vector makes the comparison NULL, so no match.
Matches(r, q, p) ==
  /\ r.summaryEmbedding # NullVector
  /\ AboveThreshold(Coordinates(r.summaryEmbedding), q)
  /\ r.projectId = p

\* ORDER BY similarity DESC compares two matching rows (both similarities
\* are positive): a is strictly more similar to q than b.
MoreSimilar(a, b, q) ==
  LET va == Coordinates(a.summaryEmbedding)
      vb == Coordinates(b.summaryEmbedding)
  IN Dot(va, q) * Dot(va, q) * Dot(vb, vb) > Dot(vb, q) * Dot(vb, q) * Dot(va, va)

\* The order in which the database scans the rows; SQL leaves the order of
\* rows of equal similarity to it.  Two scan orders: by id, up or down.
ScanOrders == {"up", "down"}

RECURSIVE Scan(_, _)
Scan(rows, order) ==
  IF rows = {} THEN <<>>
  ELSE LET r == CHOOSE x \in rows :
                  \A y \in rows : IF order = "up" THEN x.id <= y.id
                                  ELSE x.id >= y.id
       IN <<r>> \o Scan(rows \ {r}, order)

RECURSIVE InsertBySimilarity(_, _, _)
InsertBySimilarity(sorted, r, q) ==
  IF sorted = <<>> THEN <<r>>
  ELSE IF MoreSimilar(r, Head(sorted), q)
       THEN <<r>> \o sorted
       ELSE <<Head(sorted)>> \o InsertBySimilarity(Tail(sorted), r, q)

RECURSIVE SortBySimilarity(_, _)
SortBySimilarity(s, q) ==
  IF s = <<>> THEN <<>>
  ELSE InsertBySimilarity(SortBySimilarity(SubSeq(s, 1, Len(s) - 1), q),
                          s[Len(s)], q)

\* LIMIT n.
Limit(s, n) == IF Len(s) <= n THEN s ELSE SubSeq(s, 1, n)

\* The query of performVectorSearch over the rows of the table.  The rows
\* are returned whole here; the SELECT list keeps fileName, sourceCode,
\* summary and similarity.
VectorSearch(rows, q, p, order) ==
  Limit(SortBySimilarity(
          SelectSeq(Scan(rows, order), LAMBDA r : Matches(r, q, p)), q),
        MAX_RESULTS)

\* -------------------------------------------- the streamable value

\* stream.update(delta), stream.done(), stream.error(e).
StreamUpdate(ev, delta) == Append(ev, [type |-> "update", value |-> delta])
StreamDone(ev) == Append(ev, [type |-> "done", value |-> 0])
StreamError(ev) == Append(ev, [type |-> "error", value |-> 0])

CloseStreamAlwaysDone(ev, failed) == StreamDone(ev)

\* The end of the detached task of askQuestion: stream.done() after the
\* loop, stream.error(error) in its catch.
CloseStream(ev, failed) == IF failed THEN StreamError(ev) ELSE StreamDone(ev)

\* ----------------------------------------------------------------- Init
\* The store and the callers before any call.
PollStart ==
  /\ commits = {[id |-> <<0, 1>>, projectId |-> "p2", commitHash |-> 1,
                 commitMessage |-> MessageOf(1), summary |-> SummaryOf(1)]}
  /\ pc = [i \in Invocations |-> "idle"]
  /\ proj = [i \in Invocations |-> "p0"]
  /\ retry = [i \in Invocations |-> NoRetry]
  /\ err = [i \in Invocations |-> NoError]
  /\ unprocessed = [i \in Invocations |-> <<>>]
  /\ task = [i \in Invocations |-> [h \in Hashes |-> NoTask]]
  /\ activeCount = 0
  /\ queue = <<>>
  /\ storeIdx = [i \in Invocations |-> 0]
  /\ results = [i \in Invocations |-> <<>>]
  /\ storeFailed = [i \in Invocations |-> {}]
  /\ doneBefore = [i \in Invocations |-> {}]
  /\ faults = 0
  /\ pauses = [i \in Invocations |-> <<>>]
  /\ settleOrder = [i \in Invocations |-> <<>>]

PollInit ==
  /\ upstream = ApiCommits
  /\ PollStart

\* A listing of NumCommitsWide commits.
PollInitWide ==
  /\ upstream = WideApiCommits
  /\ PollStart

IndexInit ==
  /\ ipc = "idle"
  /\ load = NoLoad
  /\ ftask = [f \in AllFiles |-> NoFileTask]
  /\ embeddings = {}

AskInit ==
  /\ apc = "idle"
  /\ asked = [question |-> 1, projectId |-> "p1"]
  /\ searchResults = <<>>
  /\ completion = "none"
  /\ emitted = <<>>
  /\ events = <<>>

\* The environment of the commit pipeline fails calls as it goes (faults).
Init == PollInit /\ IndexInit /\ AskInit /\ plan = {} /\ docs = Files

\* The environment of the file pipeline has fixed which calls it will fail.
InitIndex ==
  /\ PollInit
  /\ IndexInit
  /\ AskInit
  /\ docs = Files
  /\ plan \in {P \in SUBSET (Files \X FileCalls) : Cardinality(P) <= MaxFaults}

\* A repository of more files than MAX_CONCURRENT, and no call fails.
InitWide == PollInit /\ IndexInit /\ AskInit /\ plan = {} /\ docs = WideFiles

\* -------------------------------------------------------------- actions

\* pollCommits(projectId) is called; fetchProjectGithubUrl looks the project up
\* and throws when it does not exist.
PollCommits(i, p) ==
  /\ pc[i] = "idle"
  /\ proj' = [proj EXCEPT ![i] = p]
  /\ doneBefore' = [doneBefore EXCEPT ![i] = {k \in Invocations : pc[k] = "done"}]
  /\ IF ProjectExists(p)
     THEN /\ pc' = [pc EXCEPT ![i] = "list"]
          /\ err' = err
     ELSE /\ pc' = [pc EXCEPT ![i] = "failed"]
          /\ err' = [err EXCEPT ![i] = [name |-> "ProjectNotFound", status |-> 0]]
  /\ UNCHANGED <<commits, retry, unprocessed, task, activeCount, queue,
                 storeIdx, results, storeFailed, faults, upstream, pauses, settleOrder>>
  /\ UNCHANGED indexVars
  /\ UNCHANGED askVars

\* getCommitHashes: one attempt of the listing under withRetry.  status = 0:
\* the listing returned; otherwise it threw with that status.
GetCommitHashes(i) ==
  /\ pc[i] = "list"
  /\ \E status \in {0} \cup ErrorStatuses :
       LET r == retry[i]
       IN IF status = 0
          THEN /\ retry' = [retry EXCEPT ![i].attempts = r.attempts + 1,
                                          ![i].last = status]
               /\ pc' = [pc EXCEPT ![i] = "filter"]
               /\ err' = err
          ELSE IF ShouldRetry(status, r.retryCount)
          THEN /\ retry' = [retry EXCEPT ![i] =
                              [retryCount |-> r.retryCount + 1,
                               attempts |-> r.attempts + 1,
                               waits |-> Append(r.waits, RetryDelay(r.retryCount)),
                               last |-> status]]
               /\ pc' = pc
               /\ err' = err
          ELSE /\ retry' = [retry EXCEPT ![i].attempts = r.attempts + 1,
                                          ![i].last = status]
               /\ pc' = [pc EXCEPT ![i] = "failed"]
               /\ err' = [err EXCEPT ![i] = [name |-> "HttpError", status |-> status]]
  /\ UNCHANGED <<commits, proj, unprocessed, task, activeCount, queue,
                 storeIdx, results, storeFailed, doneBefore, faults, upstream, pauses, settleOrder>>
  /\ UNCHANGED indexVars
  /\ UNCHANGED askVars

\* filterUnprocessedCommits, then the fan-out: every unprocessed commit is
\* handed to the limiter in list order; an empty list returns [].
FilterAndSubmit(i) ==
  /\ pc[i] = "filter"
  /\ \E un \in {FilterUnprocessed(proj[i], SortByDate(upstream))} :
     \E lim \in {EnqueueAll(Limiter, i, un)} :
        /\ unprocessed' = [unprocessed EXCEPT ![i] = un]
        /\ pc' = [pc EXCEPT ![i] = AfterFilter(un)]
        /\ activeCount' = lim.active
        /\ queue' = lim.queue
        /\ task' = [task EXCEPT ![i] =
                      [h \in Hashes |->
                         IF <<i, h>> \in lim.started
                         THEN [NoTask EXCEPT !.st = "running"]
                         ELSE IF \E k \in 1..Len(un) : un[k] = h
                         THEN [NoTask EXCEPT !.st = "queued"]
                         ELSE NoTask]]
  /\ retry' = [retry EXCEPT ![i] = NoRetry]
  /\ UNCHANGED <<commits, proj, err, storeIdx, results, storeFailed,
                 doneBefore, faults, upstream, pauses, settleOrder>>
  /\ UNCHANGED indexVars
  /\ UNCHANGED askVars

\* The task of (i, h) settles with record rec: its limiter slot goes to the
\* queue head, and Promise.all resolves when it was the invocation's last.
Settle(i, h, rec) ==
  LET lim == Release(Limiter)
      t1 == [task EXCEPT ![i][h] = rec]
      t2 == [j \in Invocations |-> [g \in Hashes |->
               IF <<j, g>> \in lim.started
               THEN [t1[j][g] EXCEPT !.st = "running"]
               ELSE t1[j][g]]]
      allSettled == \A g \in Hashes : t2[i][g].st \in {"none", "done", "null"}
      valid == SelectSeq(unprocessed[i], LAMBDA g : t2[i][g].st = "done")
  IN /\ task' = t2
     /\ activeCount' = lim.active
     /\ queue' = lim.queue
     /\ pc' = [pc EXCEPT ![i] =
                 IF ~allSettled THEN "tasks"
                 ELSE IF valid = <<>> THEN "done" ELSE "store"]
     /\ storeIdx' = [storeIdx EXCEPT ![i] = IF allSettled THEN 1 ELSE @]

\* withRetry around the body of summariesCommit: what the task does with the
\* body's outcome res after its attempt number t.fetches + 1.
TaskOutcome(i, h, res, fault) ==
  LET t == task[i][h]
  IN IF res.kind = "return"
     THEN Settle(i, h, [st |-> "done", fetches |-> t.fetches + 1,
                        fault |-> fault, summary |-> res.value])
     ELSE IF ShouldRetry(res.status, t.fetches)
     THEN /\ task' = [task EXCEPT ![i][h] =
                        [t EXCEPT !.st = "running", !.fetches = t.fetches + 1]]
          /\ UNCHANGED <<activeCount, queue, pc, storeIdx>>
     ELSE Settle(i, h, [st |-> "null", fetches |-> t.fetches + 1,
                        fault |-> fault, summary |-> Sentinel("")])

\* The limiter task of one commit: summariesCommit fetches the diff (axios.get)
\* and summarizes it (aiSummarizeCommit).  The two awaits touch no shared state
\* between them, so the body is one step; fetched and summarized are the
\* replies of the two calls (the second is made only when the first succeeds).
SummariesCommit(i, h) ==
  /\ pc[i] = "tasks"
  /\ task[i][h].st = "running"
  /\ \E fetched \in Replies, summarized \in Replies :
       LET res == AfterFetch(fetched)
       IN IF res.kind = "continue"
          THEN /\ IsFault(summarized) => faults < MaxFaults
               /\ faults' = IF IsFault(summarized) THEN faults + 1 ELSE faults
               /\ TaskOutcome(i, h, AfterSummarize(summarized, h),
                              IF summarized.status # 0 THEN "summarize"
                              ELSE IF ~summarized.data THEN "empty" ELSE "")
          ELSE /\ summarized = [status |-> 0, data |-> TRUE]
               /\ faults < MaxFaults
               /\ faults' = faults + 1
               /\ TaskOutcome(i, h, res,
                              IF fetched.status = RATE_LIMITED THEN "fetch429"
                              ELSE "fetch")
  /\ UNCHANGED <<commits, proj, retry, err, unprocessed, results, storeFailed,
                 doneBefore, upstream, pauses>>
  /\ UNCHANGED indexVars
  /\ UNCHANGED askVars

\* A store that pairs the k-th listed commit with the k-th summary to arrive.
CommitRowByCompletion(i, h) ==
  LET k == CHOOSE n \in 1..Len(unprocessed[i]) : unprocessed[i][n] = h
      g == IF k <= Len(settleOrder[i]) THEN settleOrder[i][k] ELSE h
  IN [id |-> <<i, h>>, projectId |-> proj[i], commitHash |-> h,
      commitMessage |-> MessageOf(h), summary |-> task[i][g].summary]

\* The row db.commit.create writes for a summarized commit: every field is
\* read from the one object `{...commit, summary}` the commit's own task
\* returned; commitMessage stands for the fields copied from the listing
\* (message, author name, avatar, date).
CommitRow(i, h) ==
  [id |-> <<i, h>>, projectId |-> proj[i], commitHash |-> h,
   commitMessage |-> MessageOf(h), summary |-> task[i][h].summary]

\* One db.commit.create of the store loop; a failed insert is logged and
\* skipped.  The last insert of a batch is followed by the pause.
StoreCommit(i) ==
  /\ pc[i] = "store"
  /\ LET valid == ValidSummaries(i)
         k == storeIdx[i]
         h == valid[k]
     IN /\ \E ok \in BOOLEAN :
             /\ ~ok => faults < MaxFaults
             /\ faults' = IF ok THEN faults ELSE faults + 1
             /\ commits' = IF ok THEN commits \cup {CommitRow(i, h)} ELSE commits
             /\ results' = IF ok THEN [results EXCEPT ![i] = Append(@, h)]
                           ELSE results
             /\ storeFailed' = IF ok THEN storeFailed
                               ELSE [storeFailed EXCEPT ![i] = @ \cup {h}]
             /\ pc' = [pc EXCEPT ![i] = AfterInsert(ok, k, Len(valid))]
        /\ storeIdx' = [storeIdx EXCEPT ![i] = k + 1]
  /\ UNCHANGED <<proj, retry, err, unprocessed, task, activeCount, queue,
                 doneBefore, upstream, pauses, settleOrder>>
  /\ UNCHANGED indexVars
  /\ UNCHANGED askVars

\* The 500 ms pause after a batch; after the last batch results is returned.
BatchPause(i) ==
  /\ pc[i] = "pause"
  /\ pc' = [pc EXCEPT ![i] =
              IF storeIdx[i] > Len(ValidSummaries(i)) THEN "done" ELSE "store"]
  /\ pauses' = [pauses EXCEPT ![i] =
                  Append(@, [after |-> storeIdx[i] - 1, ms |-> BatchPauseMs])]
  /\ UNCHANGED <<commits, proj, retry, err, unprocessed, task, activeCount,
                 queue, storeIdx, results, storeFailed, doneBefore, faults,
                 upstream, settleOrder>>
  /\ UNCHANGED indexVars
  /\ UNCHANGED askVars

Next ==
  \/ \E i \in Invocations, p \in ProjectIds : PollCommits(i, p)
  \/ \E i \in Invocations : GetCommitHashes(i)
  \/ \E i \in Invocations : FilterAndSubmit(i)
  \/ \E i \in Invocations, h \in Hashes : SummariesCommit(i, h) /\ UNCHANGED settleOrder
  \/ \E i \in Invocations : StoreCommit(i)
  \/ \E i \in Invocations : BatchPause(i)

\* The commit ingestion pipeline alone.
Spec == Init /\ [][Next]_vars

\* The task body of (i, h), with the settling of the task recorded.
SummariesCommitObserved(i, h) ==
  /\ SummariesCommit(i, h)
  /\ settleOrder' = IF task'[i][h].st \in {"done", "null"}
                    THEN [settleOrder EXCEPT ![i] = Append(@, h)]
                    ELSE settleOrder

\* One call of pollCommits on the longer listing, the order in which its
\* tasks settle recorded.
InitBatch == PollInitWide /\ IndexInit /\ AskInit /\ plan = {} /\ docs = Files

NextBatch ==
  \/ \E p \in ProjectIds : PollCommits(1, p)
  \/ GetCommitHashes(1)
  \/ FilterAndSubmit(1)
  \/ \E h \in Hashes : SummariesCommitObserved(1, h)
  \/ StoreCommit(1)
  \/ BatchPause(1)

SpecBatch == InitBatch /\ [][NextBatch]_vars

\* What invocation i does once it was called: each step is the return or the
\* failure of the call it awaits.
Step(i) ==
  \/ GetCommitHashes(i)
  \/ FilterAndSubmit(i)
  \/ \E h \in Hashes : SummariesCommit(i, h) /\ UNCHANGED settleOrder
  \/ StoreCommit(i)
  \/ BatchPause(i)

\* The commit ingestion pipeline when every call an invocation awaits
\* eventually returns or fails: no invocation that can step waits forever.
SpecFair == Spec /\ \A i \in Invocations : WF_vars(Step(i))

\* ------------------------------------------- actions of indexGithubRepo

\* indexGithubRepo is called and calls loadGithubRepo.
IndexGithubRepo ==
  /\ ipc = "idle"
  /\ ipc' = "load"
  /\ UNCHANGED <<plan, docs, load, ftask, embeddings>>
  /\ UNCHANGED pollVars
  /\ UNCHANGED askVars

\* loadGithubRepo: one attempt of loader.load() in retry's loop.  An error
\* thrown out of the loop passes the outer catch and leaves indexGithubRepo.
LoadGithubRepo ==
  /\ ipc = "load"
  /\ \E outcome \in LoadOutcomes :
       LET attempt == Len(load.outcomes) + 1
           tried == Append(load.outcomes, outcome)
       IN IF outcome = "ok"
          THEN /\ load' = [load EXCEPT !.outcomes = tried]
               /\ ipc' = "loaded"
          ELSE IF AfterLoadError(attempt, outcome) = "retry"
          THEN /\ load' = [load EXCEPT !.outcomes = tried,
                                        !.waits = Append(@, LoadWait(attempt))]
               /\ ipc' = "load"
          ELSE /\ load' = [load EXCEPT !.outcomes = tried,
                                        !.thrown = Surfaced(outcome)]
               /\ ipc' = "failed"
  /\ UNCHANGED <<plan, docs, ftask, embeddings>>
  /\ UNCHANGED pollVars
  /\ UNCHANGED askVars

\* generateEmbeddings(docs): docs.map starts one task per file, all at once;
\* each calls summariseCode at once, outside the limiter.
GenerateEmbeddings ==
  /\ ipc = "loaded"
  /\ ipc' = "generate"
  /\ ftask' = [f \in AllFiles |->
                 IF f \in docs THEN [NoFileTask EXCEPT !.st = "summarise"]
                 ELSE NoFileTask]
  /\ UNCHANGED <<plan, docs, load, embeddings>>
  /\ UNCHANGED pollVars
  /\ UNCHANGED askVars

\* summariseCode: an error of generateContent is caught and "" is returned.
SummariseCode(f) ==
  /\ ftask[f].st = "summarise"
  /\ ftask' = [ftask EXCEPT ![f] =
                 [@ EXCEPT !.st = "embed",
                           !.summary = IF <<f, "summarise">> \in plan
                                       THEN EmptySummary ELSE FileSummary(f)]]
  /\ UNCHANGED <<plan, docs, load, ipc, embeddings>>
  /\ UNCHANGED pollVars
  /\ UNCHANGED askVars

\* generateEmbedding(summary) in generateEmbeddings: a throw rejects the
\* Promise.all, and with it indexGithubRepo, while the other tasks run on;
\* when the last task is ready the persistence tasks start, all at once.
GenerateEmbedding(f) ==
  /\ ftask[f].st = "embed"
  /\ IF <<f, "embed">> \in plan
     THEN /\ ftask' = [ftask EXCEPT ![f].st = "rejected"]
          /\ ipc' = "failed"
     ELSE LET t1 == [ftask EXCEPT ![f] =
                       [@ EXCEPT !.st = "ready",
                                 !.embedding = EmbeddingOf(ftask[f].summary)]]
          IN IF ipc = "generate" /\ \A g \in docs : t1[g].st = "ready"
             THEN /\ ipc' = "persist"
                  /\ ftask' = [g \in AllFiles |->
                                 IF g \notin docs THEN t1[g]
                                 ELSE [t1[g] EXCEPT !.st =
                                         IF SkipsPersistence(t1[g]) THEN "skipped"
                                         ELSE "create"]]
             ELSE /\ ipc' = ipc
                  /\ ftask' = t1
  /\ UNCHANGED <<plan, docs, load, embeddings>>
  /\ UNCHANGED pollVars
  /\ UNCHANGED askVars

\* Promise.allSettled of the persistence tasks resolves when all have settled.
Settled(t) == \A g \in docs : t[g].st \in {"skipped", "stored", "storeFailed"}

\* db.sourceCodeEmbedding.create: the row is inserted without its vector.
CreateEmbeddingRow(f) ==
  /\ ipc = "persist"
  /\ ftask[f].st = "create"
  /\ LET ok == <<f, "create">> \notin plan
         t1 == [ftask EXCEPT ![f].st = IF ok THEN "update" ELSE "storeFailed"]
     IN /\ ftask' = t1
        /\ embeddings' =
             IF ok
             THEN embeddings \cup {[id |-> f, fileName |-> f, projectId |-> "p1",
                                    summary |-> ftask[f].summary,
                                    summaryEmbedding |-> NullVector]}
             ELSE embeddings
        /\ ipc' = IF Settled(t1) THEN "done" ELSE "persist"
  /\ UNCHANGED <<plan, docs, load>>
  /\ UNCHANGED pollVars
  /\ UNCHANGED askVars

\* db.$executeRaw UPDATE: the vector is written to the row just created.
UpdateEmbeddingRow(f) ==
  /\ ipc = "persist"
  /\ ftask[f].st = "update"
  /\ LET ok == <<f, "update">> \notin plan
         t1 == [ftask EXCEPT ![f].st = IF ok THEN "stored" ELSE "storeFailed"]
     IN /\ ftask' = t1
        /\ embeddings' =
             IF ok
             THEN {IF r.id = f
                   THEN [r EXCEPT !.summaryEmbedding = ftask[f].embedding]
                   ELSE r : r \in embeddings}
             ELSE embeddings
        /\ ipc' = IF Settled(t1) THEN "done" ELSE "persist"
  /\ UNCHANGED <<plan, docs, load>>
  /\ UNCHANGED pollVars
  /\ UNCHANGED askVars

NextIndex ==
  \/ IndexGithubRepo
  \/ LoadGithubRepo
  \/ GenerateEmbeddings
  \/ \E f \in docs : SummariseCode(f)
  \/ \E f \in docs : GenerateEmbedding(f)
  \/ \E f \in docs : CreateEmbeddingRow(f)
  \/ \E f \in docs : UpdateEmbeddingRow(f)

\* The file embedding pipeline alone.
SpecIndex == InitIndex /\ [][NextIndex]_vars

\* The file embedding pipeline on the wider repository.
SpecWide == InitWide /\ [][NextIndex]_vars


\* --------------------------------------------- actions of askQuestion

\* A question is asked against a store that was filled earlier.
InitAsk ==
  /\ PollInit
  /\ ipc = "idle"
  /\ load = NoLoad
  /\ ftask = [f \in AllFiles |-> NoFileTask]
  /\ embeddings \in AskStores
  /\ plan = {}
  /\ docs = Files
  /\ AskInit

\* askQuestion(question, projectId) is called: the streamable value is
\* created and generateEmbedding(question) is awaited.
AskQuestion(q, p) ==
  /\ apc = "idle"
  /\ apc' = "embed"
  /\ asked' = [question |-> q, projectId |-> p]
  /\ UNCHANGED <<searchResults, completion, emitted, events>>
  /\ UNCHANGED <<pollVars, indexVars>>

\* generateEmbedding(question) returns the query vector or throws; the outer
\* catch of askQuestion reports the error on the stream and rethrows.
EmbedQuestion ==
  /\ apc = "embed"
  /\ \E ok \in BOOLEAN :
       IF ok
       THEN /\ apc' = "search"
            /\ events' = events
       ELSE /\ apc' = "thrown"
            /\ events' = StreamError(events)
  /\ UNCHANGED <<asked, searchResults, completion, emitted>>
  /\ UNCHANGED <<pollVars, indexVars>>

\* performVectorSearch: the query returns its rows, or the database rejects
\* it and "Failed to search codebase" is thrown.  After the search
\* askQuestion starts the detached streaming task, which runs up to its
\* await of streamText, and returns the stream with the rows.
PerformVectorSearch ==
  /\ apc = "search"
  /\ \E ok \in BOOLEAN, order \in ScanOrders :
       IF ok
       THEN /\ searchResults' = VectorSearch(embeddings, QuestionTable[asked.question],
                                             asked.projectId, order)
            /\ apc' = "returned"
            /\ completion' = "requested"
            /\ events' = events
       ELSE /\ order = "up"
            /\ apc' = "thrown"
            /\ events' = StreamError(events)
            /\ UNCHANGED <<searchResults, completion>>
  /\ UNCHANGED <<asked, emitted>>
  /\ UNCHANGED <<pollVars, indexVars>>

\* streamText: generateContentStream returns the completion stream, or
\* throws and the catch of the detached task closes the stream.
StreamText ==
  /\ completion = "requested"
  /\ \E ok \in BOOLEAN :
       IF ok
       THEN /\ completion' = "streaming"
            /\ events' = events
       ELSE /\ completion' = "failed"
            /\ events' = CloseStream(events, TRUE)
  /\ UNCHANGED <<apc, asked, searchResults, emitted>>
  /\ UNCHANGED <<pollVars, indexVars>>

\* One iteration of `for await (const delta of textStream)`: the completion
\* stream emits its next chunk and the loop body forwards it.
StreamChunk ==
  /\ completion = "streaming"
  /\ Len(emitted) < MaxChunks
  /\ LET delta == Len(emitted) + 1
     IN /\ emitted' = Append(emitted, delta)
        /\ events' = StreamUpdate(events, delta)
  /\ UNCHANGED <<apc, asked, searchResults, completion>>
  /\ UNCHANGED <<pollVars, indexVars>>

\* The completion stream ends, or fails and the iteration throws.
StreamEnd ==
  /\ completion = "streaming"
  /\ \E failed \in BOOLEAN :
       /\ completion' = IF failed THEN "failed" ELSE "ended"
       /\ events' = CloseStream(events, failed)
  /\ UNCHANGED <<apc, asked, searchResults, emitted>>
  /\ UNCHANGED <<pollVars, indexVars>>

NextAsk ==
  \/ \E q \in Questions, p \in Projects : AskQuestion(q, p)
  \/ EmbedQuestion
  \/ PerformVectorSearch
  \/ StreamText
  \/ StreamChunk
  \/ StreamEnd

\* One question asked against a stored codebase.
SpecAsk == InitAsk /\ [][NextAsk]_vars

\* ------------------------------------------------------------ properties

RowsOf(i) == {r \in commits : r.id[1] = i}
Running == {t \in Invocations \X Hashes : task[t[1]][t[2]].st = "running"}

RECURSIVE SumSeq(_)
SumSeq(seq) == IF seq = <<>> THEN 0 ELSE Head(seq) + SumSeq(Tail(seq))

\* Call j was made after call i had returned, for the same project, and no
\* other call was ever made.
InSuccession(i, j) ==
  /\ i # j
  /\ i \in doneBefore[j]
  /\ proj[i] = proj[j]
  /\ \A k \in Invocations \ {i, j} : pc[k] = "idle"

\* C1: no two CommitRecord rows share (projectId, commitHash), also when two
\* pollCommits invocations for the same project overlap.
C1_UniquePerProject ==
  \A r1, r2 \in commits :
    (r1.projectId = r2.projectId /\ r1.commitHash = r2.commitHash) => r1 = r2

C3_ConcurrencyCeiling == Cardinality(Running) <= 5

C3_Witness == Cardinality(Running) = 5 /\ queue # <<>>

\* C4: an attempt that fails with an error other than rate-limited ends
\* withRetry at once: the error is thrown, nothing is waited, and the operation
\* is not invoked again, whatever the retry count.
C4_FailFastOnOtherErrors ==
  [][\A i \in Invocations :
       /\ (/\ retry'[i].attempts = retry[i].attempts + 1
           /\ retry'[i].last \notin {0, 429})
          => /\ pc'[i] = "failed"
             /\ err'[i].status = retry'[i].last
             /\ retry'[i].waits = retry[i].waits
       /\ pc[i] = "failed" => (pc'[i] = "failed" /\ retry'[i] = retry[i])]_vars

C4_Witness ==
  \E i \in Invocations :
    /\ pc[i] = "failed"
    /\ err[i].status = 404
    /\ retry[i].retryCount = 2
    /\ retry[i].attempts = 3

\* C5: an operation that always fails with rate-limited is invoked exactly 5
\* times, after waits of 1000, 2000, 4000 and 8000 ms, and the rate-limited
\* error is then thrown.
C5_FiveAttemptsThenThrow ==
  \A i \in Invocations :
    /\ (pc[i] = "failed" /\ err[i].status = 429) =>
         /\ retry[i].attempts = 5
         /\ retry[i].waits = <<1000, 2000, 4000, 8000>>
    /\ (pc[i] = "list" /\ retry[i].attempts = 4 /\ retry[i].last = 429) =>
         retry[i].waits = <<1000, 2000, 4000, 8000>>

C5_Witness ==
  \E i \in Invocations :
    pc[i] = "failed" /\ err[i].status = 429 /\ retry[i].attempts = 5

\* C6: after k rate-limited failures (0 <= k <= 4) and a success, withRetry
\* returns on attempt k + 1 having waited the first k delays; for k = 2 that
\* is the third attempt after 3000 ms.
C6_SuccessAfterBackoff ==
  \A i \in Invocations :
    pc[i] = "filter" =>
      LET k == retry[i].attempts - 1
      IN /\ k \in 0..4
         /\ retry[i].last = 0
         /\ retry[i].waits = SubSeq(<<1000, 2000, 4000, 8000>>, 1, k)
         /\ k = 2 => SumSeq(retry[i].waits) >= 3000

C6_Witness ==
  \E i \in Invocations :
    /\ pc[i] = "filter"
    /\ retry[i].attempts = 3
    /\ SumSeq(retry[i].waits) = 3000

\* The summary a commit's own fetch and summarize outcome calls for.
OwnSummary(i, h) ==
  IF task[i][h].fault \in {"fetch429", "fetch", "summarize"}
  THEN Sentinel("Error generating summary")
  ELSE IF task[i][h].fault = "empty"
  THEN Sentinel("No summary available")
  ELSE SummaryOf(h)

\* C7: when pollCommits returns, every unprocessed commit was summarized and
\* handed to the store with the summary its own outcome calls for: the
\* sentinel if its fetch or summarization failed, its own summary otherwise,
\* whatever happened to its siblings.
C7_FaultIsolation ==
  \A i \in Invocations :
    pc[i] = "done" =>
      \A k \in 1..Len(unprocessed[i]) :
        LET h == unprocessed[i][k]
        IN /\ task[i][h].st = "done"
           /\ task[i][h].summary = OwnSummary(i, h)
           /\ \/ h \in storeFailed[i]
              \/ \E r \in RowsOf(i) :
                   /\ r.commitHash = h
                   /\ r.summary = OwnSummary(i, h)

C7_Witness ==
  \E i \in Invocations :
    /\ pc[i] = "done"
    /\ Len(unprocessed[i]) = NumCommits
    /\ Cardinality(RowsOf(i)) = NumCommits
    /\ \E h \in Hashes :
         /\ task[i][h].fault \in {"fetch", "fetch429", "summarize"}
         /\ \A r \in RowsOf(i) :
              r.summary = IF r.commitHash = h
                          THEN Sentinel("Error generating summary")
                          ELSE SummaryOf(r.commitHash)

\* C8: a diff fetch that fails with rate-limited is retried under withRetry:
\* the sentinel is recorded for a rate-limited fetch only after the 4 retries
\* (5 fetch attempts) are exhausted.
C8_RateLimitedFetchRetried ==
  \A i \in Invocations, h \in Hashes :
    (task[i][h].st = "done" /\ task[i][h].fault = "fetch429") =>
      task[i][h].fetches = 5

RowsOfFile(f) == {r \in embeddings : r.fileName = f}

\* C9: when indexGithubRepo has ended, every file for which the environment
\* fails no summarization, embedding or store call has exactly one persisted
\* SourceCodeEmbedding record, whatever happened to the other files.
C9_FileFaultIsolation ==
  ipc \in {"done", "failed"} =>
    \A f \in Files :
      (\A c \in FileCalls : <<f, c>> \notin plan) =>
        Cardinality(RowsOfFile(f)) = 1

\* C10: no SourceCodeEmbedding record is persisted for a file whose
\* summarization failed.
C10_NoRecordWithoutSummary ==
  \A f \in Files :
    (ftask[f].st # "none" /\ ftask[f].st # "summarise"
       /\ <<f, "summarise">> \in plan) => RowsOfFile(f) = {}


\* ------------------------------------------------------------------ C11
Terminals == {k \in 1..Len(events) : events[k].type \in {"done", "error"}}
Forwarded ==
  LET ups == SelectSeq(events, LAMBDA e : e.type = "update")
  IN [k \in 1..Len(ups) |-> ups[k].value]

\* C11: the chunks forwarded to the caller's stream are the chunks the
\* completion stream emitted, in emission order; the stream gets at most one
\* terminal event, nothing follows it, and it is "done" exactly when the
\* completion stream ended normally and "error" when the completion (or the
\* call before it) failed; while the completion is open there is none.
C11_ChunksThenOneTerminal ==
  /\ Forwarded = emitted
  /\ Cardinality(Terminals) <= 1
  /\ Terminals \subseteq {Len(events)}
  /\ completion = "ended" =>
       Terminals # {} /\ events[Len(events)].type = "done"
  /\ (completion = "failed" \/ apc = "thrown") =>
       Terminals # {} /\ events[Len(events)].type = "error"
  /\ (completion \in {"none", "requested", "streaming"} /\ apc # "thrown") =>
       Terminals = {}

\* Three chunks were delivered, then the completion failed.
C11_Witness ==
  /\ completion = "failed"
  /\ emitted = <<1, 2, 3>>
  /\ Len(events) = 4
  /\ events[4].type = "error"


\* ------------------------------------------------------------------ C12
\* The cosine similarity of row r to q is above one half: 2 * dot is above
\* the product of the two lengths.
SimilarityOverHalf(r, q) ==
  LET v == Coordinates(r.summaryEmbedding)
  IN Dot(v, q) > 0 /\ 4 * Dot(v, q) * Dot(v, q) > Dot(v, v) * Dot(q, q)

Expected(rows, q, p) ==
  {r \in rows : /\ r.projectId = p
                /\ r.summaryEmbedding # NullVector
                /\ SimilarityOverHalf(r, q)}

SimilarityIs(v, q, t) ==
  Dot(v, q) > 0 /\ 100 * Dot(v, q) * Dot(v, q) = t * t * Dot(v, v) * Dot(q, q)

\* E1..E5 of project "p1" are stored and question 1 was asked of "p1".
FiveFileCase ==
  /\ apc = "returned"
  /\ embeddings = FiveFileStore
  /\ asked = [question |-> 1, projectId |-> "p1"]
  /\ \A k \in 1..5 :
       SimilarityIs(EmbeddingTable[k], QuestionTable[1], <<9, 5, 3, 6, 2>>[k])

ResultIds == [k \in 1..Len(searchResults) |-> searchResults[k].id]

C14_LoadAttempts ==
  LET o == load.outcomes
      n == Len(o)
  IN /\ n <= 3
     /\ \A k \in 1..n : k < n => o[k] = "rateLimit"
     /\ ipc \in {"idle", "load"} => Len(load.waits) = n
     /\ (n > 0 /\ o[n] = "rateLimit" /\ n < 3) =>
          ipc = "load" /\ Len(load.waits) = n /\ load.thrown = ""
     /\ (n > 0 /\ o[n] = "rateLimit" /\ n = 3) =>
          ipc = "failed" /\ load.thrown = "tokenAdvice" /\ Len(load.waits) = 2
     /\ (n > 0 /\ o[n] = "other") =>
          ipc = "failed" /\ load.thrown = "other" /\ Len(load.waits) = n - 1
     /\ (n > 0 /\ o[n] = "ok") =>
          ipc \notin {"idle", "load"} /\ load.thrown = "" /\ Len(load.waits) = n - 1

\* Three attempts were rate-limited.
C14_Witness ==
  /\ load.outcomes = <<"rateLimit", "rateLimit", "rateLimit">>
  /\ load.thrown = "tokenAdvice"
  /\ ipc = "failed"

\* ------------------------------------------------------------------ C15
\* C15 as stated: the k-th wait of loadGithubRepo is 1000 * 2^(k-1) ms
\* (1000 ms, then 2000 ms), and no wait is above 10000 ms.
C15_BackoffFromOneSecond ==
  \A k \in 1..Len(load.waits) :
    load.waits[k] = 1000 * Pow2(k - 1) /\ load.waits[k] <= 10000

\* ------------------------------------------------------------------ C16
\* The files whose summariseCode or generateEmbedding call is in flight.
InFlight == {f \in AllFiles : ftask[f].st \in {"summarise", "embed"}}

\* C16 as stated: at most MAX_CONCURRENT = 5 summarization and embedding
\* calls are in flight at any instant, also in the file embedding pipeline.
C16_FileCallsBounded == Cardinality(InFlight) <= 5


\* ------------------------------------------------------------------ C17
\* C17: a failed insert never ends the invocation as a failure; when the
\* invocation has returned, every summarized commit was submitted to the store
\* (it is in the returned list or among the logged failures, never both), the
\* returned list is the summarized commits whose insert succeeded, in the
\* order of the store loop, and these are exactly the rows the invocation
\* created.
C17_StoreFailureSkipped ==
  \A i \in Invocations :
    /\ pc[i] = "failed" => storeFailed[i] = {} /\ results[i] = <<>>
    /\ pc[i] = "done" =>
         LET valid == ValidSummaries(i)
         IN /\ results[i] = SelectSeq(valid, LAMBDA h : h \notin storeFailed[i])
            /\ \A k \in 1..Len(valid) :
                 valid[k] \in storeFailed[i]
                   \/ \E j \in 1..Len(results[i]) : results[i][j] = valid[k]
            /\ {r.commitHash : r \in RowsOf(i)} =
                 {results[i][j] : j \in 1..Len(results[i])}
            /\ Cardinality(RowsOf(i)) = Len(results[i])

\* An invocation returned after an insert failed and a later one succeeded.
C17_Witness ==
  \E i \in Invocations :
    /\ pc[i] = "done"
    /\ \E j, k \in 1..Len(ValidSummaries(i)) :
         /\ j < k
         /\ ValidSummaries(i)[j] \in storeFailed[i]
         /\ \E n \in 1..Len(results[i]) : results[i][n] = ValidSummaries(i)[k]

\* ------------------------------------------------------------------ C18
\* C18: an invocation fails exactly by throwing an error, and only because
\* the project does not exist or because the listing threw an error that is
\* not rate-limited or was rate-limited on its fifth attempt; a call for a
\* project that does not exist always fails so; a failed invocation has
\* started no commit task (no diff fetch, no summarization), has no result
\* and has created no row.
C18_PipelineFailureNoPartialResult ==
  \A i \in Invocations :
    /\ (pc[i] = "failed") = (err[i] # NoError)
    /\ (pc[i] # "idle" /\ proj[i] \notin Projects) =>
         pc[i] = "failed" /\ err[i].name = "ProjectNotFound"
    /\ pc[i] = "failed" =>
         /\ \/ err[i].name = "ProjectNotFound" /\ proj[i] \notin Projects
            \/ /\ err[i].name = "HttpError"
               /\ err[i].status # 0
               /\ err[i].status = 429 => retry[i].attempts = 5
         /\ unprocessed[i] = <<>>
         /\ \A h \in Hashes : task[i][h] = NoTask
         /\ results[i] = <<>>
         /\ RowsOf(i) = {}

\* One call failed on the unknown project, the other on a listing that was
\* rate-limited five times.
C18_Witness ==
  \E i, j \in Invocations :
    /\ pc[i] = "failed" /\ err[i].name = "ProjectNotFound"
    /\ pc[j] = "failed" /\ err[j] = [name |-> "HttpError", status |-> 429]

\* ------------------------------------------------------------------ C19
\* Every hash the provider lists has a row of the project of invocation i.
AllPersisted(i) ==
  \A k \in 1..Len(upstream) :
    \E r \in commits : r.projectId = proj[i] /\ r.commitHash = upstream[k]

\* C19: when the filter of an invocation runs while every listed hash is
\* stored for its project, the invocation returns the empty list in that
\* step: no task is started or queued, no row is written; and a returned
\* invocation does nothing more.
C19_NothingToDo ==
  [][\A i \in Invocations :
       /\ (pc[i] = "filter" /\ pc'[i] # "filter" /\ AllPersisted(i)) =>
            /\ pc'[i] = "done"
            /\ results'[i] = <<>>
            /\ unprocessed'[i] = <<>>
            /\ \A h \in Hashes : task'[i][h] = NoTask
            /\ activeCount' = activeCount /\ queue' = queue
            /\ commits' = commits
       /\ pc[i] = "done" =>
            /\ pc'[i] = "done"
            /\ results'[i] = results[i]
            /\ task'[i] = task[i]
            /\ {r \in commits' : r.id[1] = i} = RowsOf(i)]_vars

\* An invocation found every listed hash stored and returned the empty list.
C19_Witness ==
  \E i \in Invocations :
    /\ pc[i] = "done"
    /\ AllPersisted(i)
    /\ unprocessed[i] = <<>>
    /\ results[i] = <<>>
    /\ RowsOf(i) = {}


\* ------------------------------------------------------------------ C20
\* Commit h of invocation i has a row that invocation created, with the
\* commit's own summary or a sentinel, or its insert was logged as failed.
Accounted(i, h) ==
  \/ h \in storeFailed[i]
  \/ \E r \in RowsOf(i) :
       r.commitHash = h /\ (r.summary = SummaryOf(h) \/ r.summary[2] = 0)

\* C20: when every awaited call eventually returns or fails, every
\* invocation that was called eventually returns or throws; and whenever an
\* invocation has returned, each commit that was unprocessed when its filter
\* ran has a row or a logged store failure.
C20_TerminatesAndAccounts ==
  /\ [](\A i \in Invocations :
          pc[i] = "done" =>
            \A k \in 1..Len(unprocessed[i]) : Accounted(i, unprocessed[i][k]))
  /\ \A i \in Invocations :
       (pc[i] # "idle") ~> (pc[i] \in {"done", "failed"})

\* An invocation returned with all the listed commits unprocessed at its
\* start, one of them logged as a store failure and the others stored.
C20_Witness ==
  \E i \in Invocations :
    /\ pc[i] = "done"
    /\ Len(unprocessed[i]) = Len(upstream)
    /\ Cardinality(storeFailed[i]) = 1
    /\ Cardinality(RowsOf(i)) = Len(upstream) - 1


\* ------------------------------------------------------------------ C21
\* The inserts invocation i has made (returned or failed).
InsertsMade(i) == IF storeIdx[i] = 0 THEN 0 ELSE storeIdx[i] - 1
TasksSettled(i) == \A h \in Hashes : task[i][h].st \in {"none", "done", "null"}
PausedAfter(i, m) ==
  \E k \in 1..Len(pauses[i]) : pauses[i][k] = [after |-> m, ms |-> 500]

\* C21: in one invocation no insert is made or awaited before all its tasks
\* have settled; a step makes at most one insert, and only the insert the
\* store loop is waiting for; and whenever an insert follows a third, sixth,
\* ... insert (made, or about to be made), a 500 ms pause was slept between
\* them, so that at most 3 inserts lie between two pauses.
C21_SequentialBatches ==
  /\ [](\A i \in Invocations :
          /\ (pc[i] \in {"store", "pause"} \/ InsertsMade(i) > 0) => TasksSettled(i)
          /\ \A m \in 1..InsertsMade(i) :
               (m % 3 = 0 /\ (m < InsertsMade(i) \/ pc[i] = "store")) =>
                 PausedAfter(i, m)
          /\ \A k \in 1..Len(pauses[i]) :
               LET before == IF k = 1 THEN 0 ELSE pauses[i][k - 1].after
               IN pauses[i][k].after - before \in 1..3
          /\ InsertsMade(i) -
               (IF pauses[i] = <<>> THEN 0 ELSE pauses[i][Len(pauses[i])].after)
               \in 0..3)
  /\ [][\A i \in Invocations :
          ({r \in commits' : r.id[1] = i} # RowsOf(i)
             \/ storeFailed'[i] # storeFailed[i]
             \/ storeIdx'[i] # storeIdx[i]) =>
            /\ storeIdx'[i] = storeIdx[i] + 1
            /\ pc[i] = "store" \/ (pc[i] = "tasks" /\ storeIdx'[i] = 1)
            /\ Cardinality({r \in commits' : r.id[1] = i}) + Cardinality(storeFailed'[i])
                 = InsertsMade(i)']_vars

\* Four inserts were made: three, a pause, the fourth, a pause.
C21_Witness ==
  /\ pc[1] = "done"
  /\ InsertsMade(1) = 4
  /\ pauses[1] = <<[after |-> 3, ms |-> 500], [after |-> 4, ms |-> 500]>>

\* C22: whatever the order in which the concurrent tasks complete, every
\* persisted commit row carries the summary made from its own commit's diff
\* (or the sentinel its own outcome calls for) and the message of that same
\* commit, and the rows returned are those of the commits listed.
C22_OwnSummaryAnyOrder ==
  \A r \in commits :
    /\ r.commitMessage = MessageOf(r.commitHash)
    /\ r.summary \in {SummaryOf(r.commitHash), Sentinel(ErrorSummary),
                      Sentinel(NoSummary)}
    /\ r.id[1] = 1 => /\ r.summary = OwnSummary(1, r.commitHash)
                      /\ r.summary = task[1][r.commitHash].summary

\* The four tasks of the listing 1, 3, 2, 4 completed in the order 4, 3, 2, 1,
\* one of them with a failed summarization, and all four rows were stored.
C22_Witness ==
  /\ pc[1] = "done"
  /\ unprocessed[1] = <<1, 3, 2, 4>>
  /\ settleOrder[1] = <<4, 3, 2, 1>>
  /\ {r.commitHash : r \in RowsOf(1)} = 1..4
  /\ \E r \in RowsOf(1) : r.summary = Sentinel(ErrorSummary)

\* C23: each file is persisted as one complete record: when indexGithubRepo
\* has completed, every SourceCodeEmbedding row it created has its embedding
\* vector set, also when the write of the vector failed.
C23_RowsComplete ==
  ipc = "done" => \A r \in embeddings : r.summaryEmbedding # NullVector

\* ------------------------------------------------------------------ C24
SentinelRows(p) ==
  {r \in commits : /\ r.projectId = p
                   /\ r.summary \in {Sentinel(ErrorSummary), Sentinel(NoSummary)}}

Listed(j, h) == \E k \in 1..Len(unprocessed[j]) : unprocessed[j][k] = h

\* C24: once a commit is stored with a sentinel summary, a pollCommits call
\* for that project that filters afterwards leaves the commit out of its
\* unprocessed list and gives it no task: its diff is not fetched and not
\* summarized again.  Only listed commits get a task or a row, the list is
\* fixed by the filter, and no step changes or removes a stored row, so the
\* sentinel stays.
C24_SentinelPermanent ==
  [][/\ commits \subseteq commits'
     /\ \A j \in Invocations :
          /\ (pc[j] = "filter" /\ pc'[j] # "filter") =>
                \A r \in SentinelRows(proj[j]) :
                  /\ \A k \in 1..Len(unprocessed'[j]) :
                        unprocessed'[j][k] # r.commitHash
                  /\ task'[j][r.commitHash] = NoTask
          /\ pc[j] # "filter" => unprocessed'[j] = unprocessed[j]
          /\ \A h \in Hashes :
                (pc[j] # "filter" /\ task'[j][h] # task[j][h]) => Listed(j, h)
          /\ \A r \in commits' \ commits :
                r.id[1] = j => Listed(j, r.commitHash)]_vars

\* A call stored a commit with the error sentinel; the next call for the same
\* project listed the commit again, filtered it out and returned without a
\* task for it, the sentinel row still in the store.
C24_Witness ==
  \E i, j \in Invocations :
    /\ InSuccession(i, j)
    /\ pc[j] = "done"
    /\ results[j] = <<>>
    /\ \E r \in RowsOf(i) \cap SentinelRows(proj[j]) :
         /\ r.summary = Sentinel(ErrorSummary)
         /\ task[i][r.commitHash].fetches = 1
         /\ task[j][r.commitHash] = NoTask
         /\ ~Listed(j, r.commitHash)

====
